---- MODULE Spec2Model ----
(***************************************************************************)
(* Model of train_openfold.py: the OpenFoldWrapper lightning module (EMA   *)
(* weight swap around validation, optimizer/scheduler construction,        *)
(* checkpoint hooks) and the startup path of __main__ / main().            *)
(*                                                                         *)
(* Tensors live in a heap of storage cells.  A state dict is a map from    *)
(* parameter name to a cell reference, so that the difference between a    *)
(* reference to a live weight and a clone of it is part of the model.      *)
(***************************************************************************)
EXTENDS Integers, Sequences, FiniteSets, TLC

\* ------------------------------------------------------------------ bounds
MaxVal == 2            \* tensor values range over 0..MaxVal
MaxSteps == 2          \* training iterations per run
MaxValBatches == 2     \* batches of one validation epoch
MaxCkptStep == 3       \* global_step values stored in a checkpoint
MaxSchedSteps == 2     \* scheduler steps taken after fit starts
MaxAtoms == 3          \* valid atoms of a batch's mask range over 0..MaxAtoms
MaxBatch == 2          \* batch sizes range over 1..MaxBatch
MaxLogSteps == 3       \* steps whose metrics are logged

\* --------------------------------------------------------------- universes
Keys == {"k1", "k2"}
Val == 0..MaxVal
Owners == {"model", "ema", "cache"}
Cells == Owners \X Keys
Devices == {"cpu", "cuda"}
DecayDen == 2
DecaySet == {0, 1, 2}  \* decay = d / DecayDen
ConfigDecay == 1       \* config.ema.decay

None == << >>
Some(x) == <<x>>

\* parameter names are Python strings, modelled as sequences of characters
Str_template == <<"t", "e", "m", "p", "l", "a", "t", "e">>
Str_model_dot == <<"m", "o", "d", "e", "l", ".">>
Key_template_embedder_w == <<"t", "e", "m", "p", "l", "a", "t", "e", "_", "e", "m", "b", "e", "d", "d", "e", "r", ".", "w">>
Key_evoformer_w == <<"e", "v", "o", "f", "o", "r", "m", "e", "r", ".", "w">>
Key_extra_template_b == <<"e", "x", "t", "r", "a", "_", "t", "e", "m", "p", "l", "a", "t", "e", ".", "b">>
Key_templat_w == <<"t", "e", "m", "p", "l", "a", "t", ".", "w">>
Key_Template_w == <<"T", "e", "m", "p", "l", "a", "t", "e", ".", "w">>
CkptKeys == {Key_template_embedder_w, Key_evoformer_w, Key_extra_template_b,
             Key_templat_w, Key_Template_w}
CkptVals == {1, 2}
WeightKeys == {Key_evoformer_w, Key_templat_w}

VARIABLES
    \* ---- OpenFoldWrapper and the tensors it owns
    heap,            \* Cells -> Val: storage of every tensor
    cached_weights,  \* None or Some(state dict of references)
    ema_decay,       \* self.ema.decay (numerator over DecayDen)
    ema_device,      \* self.ema.device
    last_lr_step,    \* self.last_lr_step
    \* ---- position of the trainer in the hook protocol
    pc,              \* "idle" | "iter" | "val" | "failed" | "off"
    opt_done,        \* this iteration's optimizer.step() has run
    ema_done,        \* this iteration's on_before_zero_grad has run
    val_left,        \* validation batches still to run in this epoch
    err,             \* exception raised by the last hook, or "none"
    \* ---- history of the run, written but never read by the hooks
    lastOp,          \* name of the hook that ran last
    pre_state,       \* swap state on entry of the hook that ran last
    pre_swap,        \* live values at the moment of the last swap-in
    swap_ins,        \* swap-ins performed in the current validation epoch
    swap_outs,       \* swap-outs performed in the current validation epoch
    val_done,        \* validation forward passes run in the current epoch
    fwd_on_ema,      \* every such forward pass saw live = EMA shadow
    global_step,     \* optimizer steps taken
    ema_updates,     \* ema.update calls made
    \* ---- startup: __main__, main() and the start of trainer.fit
    phase,           \* position in the startup path
    args,            \* the parsed command line
    exc,             \* exception that ended startup, or "none"
    config,          \* None or Some(model_config(...))
    model_built,     \* OpenFoldWrapper(config) has been constructed
    ckpt_reads,      \* reads of the checkpoint made by main()
    loaded_sd,       \* None or Some(map given to model_module.load_state_dict)
    strategy,        \* "unset" | "DeepSpeed" | "DDP" | "None"
    find_unused,     \* None or Some(find_unused_parameters of the DDP plugin)
    ckpt_path,       \* "unset" or the ckpt_path given to trainer.fit
    initial_lr,      \* None or Some(group['initial_lr'])
    sched,           \* None or Some([last_epoch, lr]) of the scheduler
    sched_steps,     \* scheduler steps the trainer has taken
    ckpt_step,       \* None or Some(step counts stored in the checkpoint)
    ckpt_sd,         \* None or Some(flat weight map extracted from it)
    ckpt_ema,        \* None or Some(checkpoint["ema"] as read by the trainer)
    ema_sd,          \* state of self.ema: [decay, params] by value
    saved_ema,       \* None or Some(checkpoint["ema"] as written on save)
    \* ---- metric logging of the step loop
    m_pc,            \* "off" | "ready" | "failed"
    add_struct_metrics,  \* config.loss.openmm.add_struct_metrics
    batch,           \* None or Some(the batch of the last logged step)
    logged,          \* <<phase, name, value>> entries the last step logged
    m_exc,           \* exception raised by the last logged step, or "none"
    m_steps          \* steps logged so far

lvars == <<heap, cached_weights, ema_decay, ema_device, pc, opt_done,
           ema_done, val_left, err, lastOp, pre_state, pre_swap, swap_ins,
           swap_outs, val_done, fwd_on_ema, global_step, ema_updates>>

svars == <<phase, args, exc, config, model_built, ckpt_reads, loaded_sd,
           strategy, find_unused, ckpt_path, initial_lr, sched, sched_steps,
           ckpt_step, ckpt_sd, ckpt_ema, ema_sd, saved_ema, last_lr_step>>

mvars == <<m_pc, add_struct_metrics, batch, logged, m_exc, m_steps>>

vars == <<lvars, svars, mvars>>

\* ------------------------------------------------------------ tensor heap
ModelVals(h) == [k \in Keys |-> h[<<"model", k>>]]
EmaVals(h) == [k \in Keys |-> h[<<"ema", k>>]]
DictVals(h, sd) == [k \in DOMAIN sd |-> h[sd[k]]]

\* model.state_dict(): references to the live weights, not copies
model_state_dict == [k \in Keys |-> <<"model", k>>]

\* self.ema.state_dict()
ema_state_dict ==
    [decay |-> ema_decay, params |-> [k \in Keys |-> <<"ema", k>>]]

\* a mutant of clone_param: keeps the reference instead of cloning
clone_param_alias(t) == t

\* clone_param = lambda t: t.detach().clone(): a tensor in fresh storage
clone_param(t) == <<"cache", t[2]>>

\* tensor_tree_map(clone_param, tree) over a flat state dict
tensor_tree_map(tree) == [k \in DOMAIN tree |-> clone_param(tree[k])]

\* the heap after the clones of `tree` have been written to `cloned`
HeapAfterClone(h, tree, cloned) ==
    [c \in Cells |->
        IF \E k \in DOMAIN tree : cloned[k] = c
        THEN h[tree[CHOOSE k \in DOMAIN tree : cloned[k] = c]]
        ELSE h[c]]

\* model.load_state_dict(sd): copies sd's values into the live weights
load_state_dict(h, sd) ==
    [c \in Cells |-> IF c[1] = "model" THEN h[sd[c[2]]] ELSE h[c]]

\* storage of the dropped cache is released
ReleaseCache(h) == [c \in Cells |-> IF c[1] = "cache" THEN 0 ELSE h[c]]

\* ExponentialMovingAverage.update(model): blend each shadow tensor
ema_update(h) ==
    [c \in Cells |->
        IF c[1] = "ema"
        THEN (ema_decay * h[c] + (DecayDen - ema_decay) * h[<<"model", c[2]>>])
                 \div DecayDen
        ELSE h[c]]

SwapState == IF cached_weights = None THEN "Live" ELSE "Swapped"

\* ------------------------------------------------- OpenFoldWrapper hooks
\* OpenFoldWrapper.__init__: the EMA shadow starts as a clone of the model,
\* no weights are cached, no learning-rate step is recorded
WrapperInit ==
    /\ heap \in [Cells -> Val]
    /\ EmaVals(heap) = ModelVals(heap)
    /\ heap = ReleaseCache(heap)
    /\ cached_weights = None
    /\ ema_decay \in DecaySet
    /\ ema_device = "cpu"

\* training_step(batch, batch_idx); `ok` is whether forward, loss and
\* logging return without raising
training_step(device, ok) ==
    /\ pc = "idle"
    /\ global_step < MaxSteps
    /\ ema_device' = device          \* self.ema.to(device) when they differ
    /\ lastOp' = "training_step"
    /\ pre_state' = SwapState
    /\ IF ok
       THEN /\ pc' = "iter"
            /\ err' = "none"
       ELSE /\ pc' = "failed"
            /\ err' = "StepError"
    /\ opt_done' = FALSE
    /\ ema_done' = FALSE
    /\ UNCHANGED <<heap, cached_weights, ema_decay, val_left, pre_swap,
                   swap_ins, swap_outs, val_done, fwd_on_ema, global_step,
                   ema_updates>>

\* the position the trainer is in once both halves of an iteration ran
AfterIteration(o, e) == IF o /\ e THEN "idle" ELSE "iter"

\* optimizer.step() of the Adam optimizer over self.model.parameters():
\* the gradient update writes new values into the live weights
optimizer_step(new) ==
    /\ pc = "iter"
    /\ ~opt_done
    /\ heap' = [c \in Cells |-> IF c[1] = "model" THEN new[c[2]] ELSE heap[c]]
    /\ opt_done' = TRUE
    /\ global_step' = global_step + 1
    /\ pc' = AfterIteration(TRUE, ema_done)
    /\ lastOp' = "optimizer_step"
    /\ pre_state' = SwapState
    /\ UNCHANGED <<cached_weights, ema_decay, ema_device, ema_done, val_left,
                   err, pre_swap, swap_ins, swap_outs, val_done, fwd_on_ema,
                   ema_updates>>

\* on_before_zero_grad: self.ema.update(self.model)
on_before_zero_grad ==
    /\ pc = "iter"
    /\ ~ema_done
    /\ heap' = ema_update(heap)
    /\ ema_done' = TRUE
    /\ ema_updates' = ema_updates + 1
    /\ pc' = AfterIteration(opt_done, TRUE)
    /\ lastOp' = "on_before_zero_grad"
    /\ pre_state' = SwapState
    /\ UNCHANGED <<cached_weights, ema_decay, ema_device, opt_done, val_left,
                   err, pre_swap, swap_ins, swap_outs, val_done, fwd_on_ema,
                   global_step>>

\* the trainer enters a validation epoch of n batches
validation_start(n) ==
    /\ pc = "idle"
    /\ pc' = "val"
    /\ val_left' = n
    /\ swap_ins' = 0
    /\ swap_outs' = 0
    /\ val_done' = 0
    /\ fwd_on_ema' = TRUE
    /\ pre_swap' = None
    /\ lastOp' = "validation_start"
    /\ pre_state' = SwapState
    /\ UNCHANGED <<heap, cached_weights, ema_decay, ema_device, opt_done,
                   ema_done, err, global_step, ema_updates>>

\* a mutant of validation_step: refuses to run while weights are cached
validation_step_strict(ok) ==
    LET swap == cached_weights = None
        cw == tensor_tree_map(model_state_dict)
        h1 == IF swap
              THEN load_state_dict(HeapAfterClone(heap, model_state_dict, cw),
                                   ema_state_dict.params)
              ELSE heap
    IN  /\ pc = "val"
        /\ val_left > 0
        /\ cached_weights' = IF swap THEN Some(cw) ELSE cached_weights
        /\ heap' = h1
        /\ swap_ins' = IF swap THEN swap_ins + 1 ELSE swap_ins
        /\ pre_swap' = IF swap THEN Some(ModelVals(heap)) ELSE pre_swap
        /\ val_done' = IF swap THEN val_done + 1 ELSE val_done
        /\ fwd_on_ema' = (fwd_on_ema /\ ModelVals(h1) = EmaVals(h1))
        /\ lastOp' = "validation_step"
        /\ pre_state' = SwapState
        /\ IF ~swap
           THEN /\ pc' = "failed"
                /\ val_left' = val_left
                /\ err' = "StateError"
           ELSE IF ok
                THEN /\ pc' = "val"
                     /\ val_left' = val_left - 1
                     /\ err' = "none"
                ELSE /\ pc' = "failed"
                     /\ val_left' = val_left
                     /\ err' = "StepError"
        /\ UNCHANGED <<ema_decay, ema_device, opt_done, ema_done, swap_outs,
                       global_step, ema_updates>>

\* a mutant of validation_step: the swap-in copies the live weights into
\* the EMA shadow instead of the shadow into the live weights
validation_step_into_ema(ok) ==
    LET swap == cached_weights = None
        cw == tensor_tree_map(model_state_dict)
        hc == HeapAfterClone(heap, model_state_dict, cw)
        h1 == IF swap
              THEN [c \in Cells |->
                      IF c[1] = "ema" THEN hc[<<"model", c[2]>>] ELSE hc[c]]
              ELSE heap
    IN  /\ pc = "val"
        /\ val_left > 0
        /\ cached_weights' = IF swap THEN Some(cw) ELSE cached_weights
        /\ heap' = h1
        /\ swap_ins' = IF swap THEN swap_ins + 1 ELSE swap_ins
        /\ pre_swap' = IF swap THEN Some(ModelVals(heap)) ELSE pre_swap
        /\ val_done' = val_done + 1
        /\ fwd_on_ema' = (fwd_on_ema /\ ModelVals(h1) = EmaVals(h1))
        /\ lastOp' = "validation_step"
        /\ pre_state' = SwapState
        /\ IF ok
           THEN /\ pc' = "val"
                /\ val_left' = val_left - 1
                /\ err' = "none"
           ELSE /\ pc' = "failed"
                /\ val_left' = val_left
                /\ err' = "StepError"
        /\ UNCHANGED <<ema_decay, ema_device, opt_done, ema_done, swap_outs,
                       global_step, ema_updates>>

\* a mutant of validation_step: swaps on every batch
validation_step_always_swap(ok) ==
    LET cw == tensor_tree_map(model_state_dict)
        h1 == load_state_dict(HeapAfterClone(heap, model_state_dict, cw),
                              ema_state_dict.params)
    IN  /\ pc = "val"
        /\ val_left > 0
        /\ cached_weights' = Some(cw)
        /\ heap' = h1
        /\ swap_ins' = swap_ins + 1
        /\ pre_swap' = Some(ModelVals(heap))
        /\ val_done' = val_done + 1
        /\ fwd_on_ema' = (fwd_on_ema /\ ModelVals(h1) = EmaVals(h1))
        /\ lastOp' = "validation_step"
        /\ pre_state' = SwapState
        /\ IF ok
           THEN /\ pc' = "val"
                /\ val_left' = val_left - 1
                /\ err' = "none"
           ELSE /\ pc' = "failed"
                /\ val_left' = val_left
                /\ err' = "StepError"
        /\ UNCHANGED <<ema_decay, ema_device, opt_done, ema_done, swap_outs,
                       global_step, ema_updates>>

\* validation_step(batch, batch_idx); `ok` is whether forward, loss and
\* logging return without raising
validation_step(ok) ==
    LET swap == cached_weights = None
        cw == tensor_tree_map(model_state_dict)
        h1 == IF swap
              THEN load_state_dict(HeapAfterClone(heap, model_state_dict, cw),
                                   ema_state_dict.params)
              ELSE heap
    IN  /\ pc = "val"
        /\ val_left > 0
        /\ cached_weights' = IF swap THEN Some(cw) ELSE cached_weights
        /\ heap' = h1
        /\ swap_ins' = IF swap THEN swap_ins + 1 ELSE swap_ins
        /\ pre_swap' = IF swap THEN Some(ModelVals(heap)) ELSE pre_swap
        /\ val_done' = val_done + 1                 \* outputs = self(batch)
        /\ fwd_on_ema' = (fwd_on_ema /\ ModelVals(h1) = EmaVals(h1))
        /\ lastOp' = "validation_step"
        /\ pre_state' = SwapState
        /\ IF ok
           THEN /\ pc' = "val"
                /\ val_left' = val_left - 1
                /\ err' = "none"
           ELSE /\ pc' = "failed"
                /\ val_left' = val_left
                /\ err' = "StepError"
        /\ UNCHANGED <<ema_decay, ema_device, opt_done, ema_done, swap_outs,
                       global_step, ema_updates>>

\* a mutant of validation_epoch_end: returns quietly when nothing is cached
validation_epoch_end_noop ==
    /\ pc = "val"
    /\ val_left = 0
    /\ lastOp' = "validation_epoch_end"
    /\ pre_state' = SwapState
    /\ pc' = "idle"
    /\ err' = "none"
    /\ IF cached_weights = None
       THEN UNCHANGED <<heap, swap_outs>>
       ELSE /\ heap' = ReleaseCache(load_state_dict(heap, cached_weights[1]))
            /\ swap_outs' = swap_outs + 1
    /\ cached_weights' = None
    /\ UNCHANGED <<ema_decay, ema_device, opt_done, ema_done, val_left,
                   pre_swap, swap_ins, val_done, fwd_on_ema, global_step,
                   ema_updates>>

\* a mutant of validation_epoch_end: restores but keeps the cache
validation_epoch_end_keep ==
    /\ pc = "val"
    /\ val_left = 0
    /\ lastOp' = "validation_epoch_end"
    /\ pre_state' = SwapState
    /\ IF cached_weights = None
       THEN /\ pc' = "failed"
            /\ err' = "TypeError"
            /\ UNCHANGED <<heap, swap_outs>>
       ELSE /\ pc' = "idle"
            /\ err' = "none"
            /\ heap' = load_state_dict(heap, cached_weights[1])
            /\ swap_outs' = swap_outs + 1
    /\ UNCHANGED <<cached_weights, ema_decay, ema_device, opt_done, ema_done,
                   val_left, pre_swap, swap_ins, val_done, fwd_on_ema,
                   global_step, ema_updates>>

\* validation_epoch_end(_): model.load_state_dict(self.cached_weights), then
\* the cache is dropped.  load_state_dict(None) raises before it writes.
validation_epoch_end ==
    /\ pc = "val"
    /\ val_left = 0
    /\ lastOp' = "validation_epoch_end"
    /\ pre_state' = SwapState
    /\ IF cached_weights = None
       THEN /\ pc' = "failed"
            /\ err' = "TypeError"
            /\ UNCHANGED <<heap, cached_weights, swap_outs>>
       ELSE /\ pc' = "idle"
            /\ err' = "none"
            /\ heap' = ReleaseCache(load_state_dict(heap, cached_weights[1]))
            /\ cached_weights' = None
            /\ swap_outs' = swap_outs + 1
    /\ UNCHANGED <<ema_decay, ema_device, opt_done, ema_done, val_left,
                   pre_swap, swap_ins, val_done, fwd_on_ema, global_step,
                   ema_updates>>

\* ------------------------------------------------------ Python helpers
\* str(x) of a command-line value <<type, text>>
str(x) == x[2]

\* a mutant of IsFP16: compares the raw value with "16", without str()
IsFP16_raw(a) == a.precision = <<"str", <<"1", "6">>>>

\* str(args.precision) == "16"
IsFP16(a) == str(a.precision) = <<"1", "6">>

\* `pat in k` on strings
Contains(k, pat) ==
    \E i \in 1..(Len(k) - Len(pat) + 1) : SubSeq(k, i, i + Len(pat) - 1) = pat

Restrict(f, S) == [k \in S |-> f[k]]

\* (args.gpus is not None and args.gpus > 1) or args.num_nodes > 1
Distributed(a) ==
    (a.gpus # {} /\ \E n \in a.gpus : n > 1) \/ a.num_nodes > 1

\* ------------------------------------------------ learning-rate schedule
LearningRate == 1000        \* configure_optimizers' learning_rate, in 1e-6
SchedulerDefaultLastEpoch == -1
WarmupSteps == 2
StartDecayAfter == 4
DecayEvery == 2
MaxLR == 1000
DecayPct == 95

RECURSIVE PctPow(_)
PctPow(e) == IF e = 0 THEN MaxLR ELSE (PctPow(e - 1) * DecayPct) \div 100

\* AlphaFoldLRScheduler.get_lr at step s: linear warmup, plateau, decay
LRMultiplier(s) ==
    IF s <= WarmupSteps THEN (s * MaxLR) \div WarmupSteps
    ELSE IF s > StartDecayAfter
         THEN PctPow(((s - StartDecayAfter) \div DecayEvery) + 1)
         ELSE MaxLR

\* AlphaFoldLRScheduler(optimizer, last_epoch): the constructor takes the
\* initial step, which moves last_epoch on by one and sets the rate
AlphaFoldLRScheduler(last_epoch) ==
    [last_epoch |-> last_epoch + 1, lr |-> LRMultiplier(last_epoch + 1)]

\* scheduler.step()
SchedulerStep(sc) ==
    [last_epoch |-> sc.last_epoch + 1, lr |-> LRMultiplier(sc.last_epoch + 1)]

\* --------------------------------------------------------------- startup
Precisions == {<<"int", <<"1", "6">>>>, <<"int", <<"3", "2">>>>,
               <<"str", <<"1", "6">>>>, <<"str", <<"b", "f", "1", "6">>>>}

ArgSpace ==
    [seed_set : BOOLEAN,            \* args.seed is not None
     gpus : {{}, {1}, {2}},         \* args.gpus: unset or a count
     num_nodes : {1, 2},
     precision : Precisions,
     deepspeed : BOOLEAN,           \* args.deepspeed_config_path is not None
     resume : {"none", "dir", "file"},   \* args.resume_from_ckpt and its shape
     weights_only : BOOLEAN,        \* args.resume_model_weights_only
     jax : BOOLEAN,                 \* args.jax_param_path is not None
     templates : BOOLEAN]           \* the preset's model.template.enabled

\* __main__ after parse_args: the two startup checks, then main(args)
main_guard ==
    /\ phase = "parsed"
    /\ IF ~args.seed_set /\ Distributed(args)
       THEN /\ phase' = "failed"
            /\ exc' = "ValueError: seed"
       ELSE IF IsFP16(args) /\ args.deepspeed
            THEN /\ phase' = "failed"
                 /\ exc' = "ValueError: DeepSpeed and FP16"
            ELSE /\ phase' = "main"
                 /\ exc' = "none"
    /\ UNCHANGED <<args, config, model_built, ckpt_reads, loaded_sd, strategy,
                   find_unused, ckpt_path, initial_lr, sched, sched_steps,
                   ckpt_step, ckpt_ema, ema_sd, saved_ema, last_lr_step>>
    /\ UNCHANGED <<lvars, mvars, ckpt_sd>>

\* main(): model_config(...) and OpenFoldWrapper(config)
build_model ==
    /\ phase = "main"
    /\ phase' = "built"
    /\ config' = Some([low_prec |-> IsFP16(args),
                       template_enabled |-> args.templates])
    /\ model_built' = TRUE
    /\ last_lr_step' = -1
    /\ ema_sd' = Some([decay |-> ConfigDecay,
                        params |-> [k \in WeightKeys |-> 0]])
    /\ UNCHANGED <<args, exc, ckpt_reads, loaded_sd, strategy, find_unused,
                   ckpt_path, initial_lr, sched, sched_steps, ckpt_step,
                   ckpt_ema, saved_ema>>
    /\ UNCHANGED <<lvars, mvars, ckpt_sd>>

\* resume_last_lr_step(lr_step)
resume_last_lr_step(lr_step) == lr_step

\* a mutant of PrefixKeys: strips a leading "module." instead of prefixing
PrefixKeys_strip(sd) ==
    [kk \in {SubSeq(k, 8, Len(k)) : k \in DOMAIN sd} |->
        sd[CHOOSE k \in DOMAIN sd : SubSeq(k, 8, Len(k)) = kk]]

\* sd = {"model." + k: v for k, v in sd.items()}
PrefixKeys(sd) ==
    [kk \in {Str_model_dot \o k : k \in DOMAIN sd} |->
        sd[CHOOSE k \in DOMAIN sd : Str_model_dot \o k = kk]]

\* a mutant of ReadGlobalStep: the two checkpoint shapes are mixed up
ReadGlobalStep_swapped(shape, zero_step, field_step) ==
    IF shape = "dir" THEN field_step ELSE zero_step

\* the global step of the checkpoint at args.resume_from_ckpt: from
\* get_global_step_from_zero_checkpoint for a directory, from
\* int(sd['global_step']) for a single file
ReadGlobalStep(shape, zero_step, field_step) ==
    IF shape = "dir" THEN zero_step ELSE field_step

\* main(): the jax / full-resume / weights-only branches.  `zero_step` is
\* what the sharded-checkpoint utility reports for the checkpoint,
\* `field_step` its global_step field, `weights` its flat weight map.
resume(zero_step, field_step, weights) ==
    /\ phase = "built"
    /\ IF args.jax
       THEN \* load_jax_params_into_model is called with its arguments
            \* swapped and logs an undefined name: it raises
            /\ phase' = "failed"
            /\ exc' = "JaxLoadError"
            /\ UNCHANGED <<last_lr_step, ckpt_reads, ckpt_step, ckpt_sd,
                           loaded_sd>>
       ELSE /\ phase' = "resumed"
            /\ exc' = "none"
            /\ IF args.resume # "none" /\ ~args.weights_only
               THEN /\ last_lr_step' = resume_last_lr_step(
                           ReadGlobalStep(args.resume, zero_step, field_step))
                    /\ ckpt_step' = Some([zero_step |-> zero_step,
                                          global_step |-> field_step])
                    /\ ckpt_reads' = ckpt_reads + 1
                    /\ UNCHANGED <<loaded_sd, ckpt_sd>>
               ELSE IF args.resume # "none" /\ args.weights_only
                    THEN /\ loaded_sd' = Some(PrefixKeys(weights))
                         /\ ckpt_sd' = Some(weights)
                         /\ ckpt_reads' = ckpt_reads + 1
                         /\ UNCHANGED <<last_lr_step, ckpt_step>>
                    ELSE UNCHANGED <<last_lr_step, ckpt_reads, ckpt_step,
                                     ckpt_sd, loaded_sd>>
    /\ UNCHANGED <<args, config, model_built, strategy, find_unused,
                   ckpt_path, initial_lr, sched, sched_steps, ckpt_ema,
                   ema_sd, saved_ema>>
    /\ UNCHANGED <<lvars, mvars>>

\* a mutant of SelectStrategy: the device test comes first
SelectStrategy_ddp_first(a) ==
    IF Distributed(a)
    THEN [strategy |-> "DDP", find_unused |-> Some(FALSE)]
    ELSE IF a.deepspeed
         THEN [strategy |-> "DeepSpeed", find_unused |-> None]
         ELSE [strategy |-> "None", find_unused |-> None]

\* main(): DeepSpeedPlugin / DDPPlugin(find_unused_parameters=False) / None
SelectStrategy(a) ==
    IF a.deepspeed
    THEN [strategy |-> "DeepSpeed", find_unused |-> None]
    ELSE IF Distributed(a)
         THEN [strategy |-> "DDP", find_unused |-> Some(FALSE)]
         ELSE [strategy |-> "None", find_unused |-> None]

select_strategy ==
    /\ phase = "resumed"
    /\ phase' = "strategy"
    /\ strategy' = SelectStrategy(args).strategy
    /\ find_unused' = SelectStrategy(args).find_unused
    /\ UNCHANGED <<args, exc, config, model_built, ckpt_reads, loaded_sd,
                   ckpt_path, initial_lr, sched, sched_steps, ckpt_step,
                   ckpt_ema, ema_sd, saved_ema, last_lr_step>>
    /\ UNCHANGED <<lvars, mvars, ckpt_sd>>

\* main(): the ckpt_path handed to trainer.fit
start_fit ==
    /\ phase = "strategy"
    /\ phase' = "fit"
    /\ ckpt_path' = IF args.weights_only THEN "none" ELSE args.resume
    /\ UNCHANGED <<args, exc, config, model_built, ckpt_reads, loaded_sd,
                   strategy, find_unused, initial_lr, sched, sched_steps,
                   ckpt_step, ckpt_ema, ema_sd, saved_ema, last_lr_step>>
    /\ UNCHANGED <<lvars, mvars, ckpt_sd>>

\* a mutant of configure_optimizers: the scheduler is given last_lr_step
configure_optimizers_resumed ==
    /\ phase = "fit"
    /\ phase' = "configured"
    /\ initial_lr' = Some(LearningRate)
    /\ sched' = Some(AlphaFoldLRScheduler(last_lr_step))
    /\ UNCHANGED <<args, exc, config, model_built, ckpt_reads, loaded_sd,
                   strategy, find_unused, ckpt_path, sched_steps, ckpt_step,
                   ckpt_ema, ema_sd, saved_ema, last_lr_step>>
    /\ UNCHANGED <<lvars, mvars, ckpt_sd>>

\* configure_optimizers(): Adam, initial_lr on resume, and a scheduler
\* constructed from the optimizer alone
configure_optimizers ==
    /\ phase = "fit"
    /\ phase' = "configured"
    /\ initial_lr' = Some(LearningRate)
    /\ sched' = Some(AlphaFoldLRScheduler(SchedulerDefaultLastEpoch))
    /\ UNCHANGED <<args, exc, config, model_built, ckpt_reads, loaded_sd,
                   strategy, find_unused, ckpt_path, sched_steps, ckpt_step,
                   ckpt_ema, ema_sd, saved_ema, last_lr_step>>
    /\ UNCHANGED <<lvars, mvars, ckpt_sd>>

\* a mutant of FilterEma: drops only the keys that start with "template"
FilterEma_prefix(ema, template_enabled) ==
    IF ~template_enabled
    THEN [decay |-> ema.decay,
          params |-> Restrict(ema.params,
                       {k \in DOMAIN ema.params :
                          ~(Len(k) >= Len(Str_template)
                            /\ SubSeq(k, 1, Len(Str_template)) = Str_template)})]
    ELSE ema

\* on_load_checkpoint: the state passed to self.ema.load_state_dict
FilterEma(ema, template_enabled) ==
    IF ~template_enabled
    THEN [decay |-> ema.decay,
          params |-> Restrict(ema.params,
                       {k \in DOMAIN ema.params : ~Contains(k, Str_template)})]
    ELSE ema

\* the EMA fragment of the checkpoint a startup run restores from
StartupEmaPool ==
    {[decay |-> 2, params |-> [k \in CkptKeys |-> 1]],
     [decay |-> 0, params |-> [k \in {Key_evoformer_w} |-> 2]]}

\* the checkpoints' EMA fragments
CkptEmaSpace ==
    UNION {[decay : DecaySet, params : [S -> CkptVals]] : S \in SUBSET CkptKeys}

\* on_load_checkpoint(checkpoint), called by the trainer when it restores
\* from ckpt_path; ExponentialMovingAverage.load_state_dict takes the state
on_load_checkpoint(ema) ==
    /\ phase = "configured"
    /\ ckpt_path # "none"
    /\ phase' = "train"
    /\ ckpt_ema' = Some(ema)
    /\ ema_sd' = Some(FilterEma(ema, config[1].template_enabled))
    /\ UNCHANGED <<args, exc, config, model_built, ckpt_reads, loaded_sd,
                   strategy, find_unused, ckpt_path, initial_lr, sched,
                   sched_steps, ckpt_step, saved_ema, last_lr_step>>
    /\ UNCHANGED <<lvars, mvars, ckpt_sd>>

\* trainer.fit without a checkpoint to restore
fit_fresh ==
    /\ phase = "configured"
    /\ ckpt_path = "none"
    /\ phase' = "train"
    /\ UNCHANGED <<args, exc, config, model_built, ckpt_reads, loaded_sd,
                   strategy, find_unused, ckpt_path, initial_lr, sched,
                   sched_steps, ckpt_step, ckpt_ema, ema_sd, saved_ema,
                   last_lr_step>>
    /\ UNCHANGED <<lvars, mvars, ckpt_sd>>

\* one training step of the fit loop: the scheduler (interval "step") steps
fit_step ==
    /\ phase = "train"
    /\ sched_steps < MaxSchedSteps
    /\ sched' = Some(SchedulerStep(sched[1]))
    /\ sched_steps' = sched_steps + 1
    /\ UNCHANGED <<phase, args, exc, config, model_built, ckpt_reads,
                   loaded_sd, strategy, find_unused, ckpt_path, initial_lr,
                   ckpt_step, ckpt_ema, ema_sd, saved_ema, last_lr_step>>
    /\ UNCHANGED <<lvars, mvars, ckpt_sd>>

\* on_save_checkpoint: checkpoint["ema"] = self.ema.state_dict()
on_save_checkpoint ==
    /\ phase = "train"
    /\ saved_ema = None
    /\ saved_ema' = Some(ema_sd[1])
    /\ UNCHANGED <<phase, args, exc, config, model_built, ckpt_reads,
                   loaded_sd, strategy, find_unused, ckpt_path, initial_lr,
                   sched, sched_steps, ckpt_step, ckpt_ema, ema_sd,
                   last_lr_step>>
    /\ UNCHANGED <<lvars, mvars, ckpt_sd>>

\* ------------------------------------------------------- specifications
\* the startup path has not been entered
StartupIdle ==
    /\ phase = "off"
    /\ args \in {[seed_set |-> TRUE, gpus |-> {}, num_nodes |-> 1,
                  precision |-> <<"int", <<"3", "2">>>>, deepspeed |-> FALSE,
                  resume |-> "none", weights_only |-> FALSE, jax |-> FALSE,
                  templates |-> TRUE]}
    /\ exc = "none"
    /\ config = None
    /\ model_built = TRUE
    /\ ckpt_reads = 0
    /\ loaded_sd = None
    /\ strategy = "None"
    /\ find_unused = None
    /\ ckpt_path = "none"
    /\ initial_lr = None
    /\ sched = None
    /\ sched_steps = 0
    /\ ckpt_step = None
    /\ ckpt_sd = None
    /\ ckpt_ema = None
    /\ ema_sd = None
    /\ saved_ema = None
    /\ last_lr_step = -1

\* the hook protocol has not been entered
LifecycleIdle ==
    /\ heap = [c \in Cells |-> 0]
    /\ cached_weights = None
    /\ ema_decay = 0
    /\ ema_device = "cpu"
    /\ pc = "off"
    /\ opt_done = FALSE
    /\ ema_done = FALSE
    /\ val_left = 0
    /\ err = "none"
    /\ lastOp = "none"
    /\ pre_state = "Live"
    /\ pre_swap = None
    /\ swap_ins = 0
    /\ swap_outs = 0
    /\ val_done = 0
    /\ fwd_on_ema = TRUE
    /\ global_step = 0
    /\ ema_updates = 0

\* no step has been logged
MetricsIdle ==
    /\ m_pc = "off"
    /\ add_struct_metrics = FALSE
    /\ batch = None
    /\ logged = {}
    /\ m_exc = "none"
    /\ m_steps = 0

\* one replica's life under the trainer: training iterations and
\* validation epochs, from a freshly constructed wrapper
Init ==
    /\ WrapperInit
    /\ pc = "idle"
    /\ opt_done = FALSE
    /\ ema_done = FALSE
    /\ val_left = 0
    /\ err = "none"
    /\ lastOp = "none"
    /\ pre_state = "Live"
    /\ pre_swap = None
    /\ swap_ins = 0
    /\ swap_outs = 0
    /\ val_done = 0
    /\ fwd_on_ema = TRUE
    /\ global_step = 0
    /\ ema_updates = 0
    /\ StartupIdle
    /\ MetricsIdle

Next ==
    \/ \E d \in Devices, ok \in BOOLEAN : training_step(d, ok) /\ UNCHANGED <<svars, mvars>>
    \/ \E new \in [Keys -> Val] : optimizer_step(new) /\ UNCHANGED <<svars, mvars>>
    \/ on_before_zero_grad /\ UNCHANGED <<svars, mvars>>
    \/ \E n \in 0..MaxValBatches : validation_start(n) /\ UNCHANGED <<svars, mvars>>
    \/ \E ok \in BOOLEAN : validation_step(ok) /\ UNCHANGED <<svars, mvars>>
    \/ validation_epoch_end /\ UNCHANGED <<svars, mvars>>

Spec == Init /\ [][Next]_vars

\* the startup path, from the parsed command line to the first steps of fit
InitStartup ==
    /\ LifecycleIdle
    /\ MetricsIdle
    /\ phase = "parsed"
    /\ args \in ArgSpace
    /\ exc = "none"
    /\ config = None
    /\ model_built = FALSE
    /\ ckpt_reads = 0
    /\ loaded_sd = None
    /\ strategy = "unset"
    /\ find_unused = None
    /\ ckpt_path = "unset"
    /\ initial_lr = None
    /\ sched = None
    /\ sched_steps = 0
    /\ ckpt_step = None
    /\ ckpt_sd = None
    /\ ckpt_ema = None
    /\ ema_sd = None
    /\ saved_ema = None
    /\ last_lr_step = -1

WeightMaps == UNION {[S -> CkptVals] : S \in SUBSET WeightKeys}

NextStartup ==
    \/ main_guard
    \/ build_model
    \/ \E zero_step \in 0..MaxCkptStep, field_step \in 0..MaxCkptStep,
          weights \in WeightMaps : resume(zero_step, field_step, weights)
    \/ select_strategy
    \/ start_fit
    \/ configure_optimizers
    \/ \E ema \in StartupEmaPool : on_load_checkpoint(ema)
    \/ fit_fresh
    \/ fit_step

SpecStartup == InitStartup /\ [][NextStartup]_vars

\* the checkpoint hooks on their own: a constructed wrapper whose trainer
\* restores from, and saves to, checkpoints of any content
InitCkpt ==
    /\ LifecycleIdle
    /\ MetricsIdle
    /\ phase = "configured"
    /\ args \in {a \in ArgSpace :
                   /\ a.seed_set /\ a.gpus = {} /\ a.num_nodes = 1
                   /\ a.precision = <<"int", <<"3", "2">>>> /\ ~a.deepspeed
                   /\ a.resume = "file" /\ ~a.weights_only /\ ~a.jax}
    /\ exc = "none"
    /\ config = Some([low_prec |-> FALSE, template_enabled |-> args.templates])
    /\ model_built = TRUE
    /\ ckpt_reads = 1
    /\ loaded_sd = None
    /\ strategy = "None"
    /\ find_unused = None
    /\ ckpt_path = "file"
    /\ initial_lr = Some(LearningRate)
    /\ sched = Some(AlphaFoldLRScheduler(SchedulerDefaultLastEpoch))
    /\ sched_steps = 0
    /\ ckpt_step = Some([zero_step |-> 0, global_step |-> 0])
    /\ ckpt_sd = None
    /\ ckpt_ema = None
    /\ ema_sd = Some([decay |-> ConfigDecay, params |-> [k \in WeightKeys |-> 0]])
    /\ saved_ema = None
    /\ last_lr_step = 0

NextCkpt ==
    \/ \E ema \in CkptEmaSpace : on_load_checkpoint(ema)
    \/ on_save_checkpoint

SpecCkpt == InitCkpt /\ [][NextCkpt]_vars

\* ------------------------------------------------------ metric logging
\* values of a logged scalar: a number or NaN
\* lddt_ca(pred, gt, mask, eps): regularised by eps, always a number
lddt_ca(n) == "num"

\* drmsd(pred_ca, gt_ca, mask): NaN when the mask leaves no valid pair
drmsd(n) == IF n * (n - 1) = 0 THEN "nan" ELSE "num"

\* superimpose(gt, pred, mask): the alignment RMSD, NaN when fewer than
\* three valid points are left
superimpose(n) == IF n < 3 THEN "nan" ELSE "num"

\* gdt_ts / gdt_ha of the superimposed prediction
gdt(n) == superimpose(n)

CaMetricNames == {"rmsd_ca", "gdtts_ca", "gdtha_ca"}
AllAtomMetricNames == {"rmsd_aa", "gdcall_aa", "tmscore_aa", "tmscore_ca",
                       "drmsd_aa", "lddt_aa", "lddtquasi_aa"}
ScnMetricNames == AllAtomMetricNames \ {"rmsd_aa"}

\* what a call into sidechainnet.examples.losses can do
ScnOutcomes == {"num", "nan", "raise"}

BaseMetrics(n) ==
    [k \in {"lddt_ca", "drmsd_ca"} |->
        IF k = "lddt_ca" THEN lddt_ca(n) ELSE drmsd(n)]

CaMetrics(n) ==
    [k \in CaMetricNames |-> IF k = "rmsd_ca" THEN superimpose(n) ELSE gdt(n)]

AllAtomMetrics(n, scn) ==
    [k \in AllAtomMetricNames |-> IF k = "rmsd_aa" THEN superimpose(n) ELSE scn]

\* a mutant of compute_validation_metrics: the batch-size assert is gone
compute_validation_metrics_noassert(size, n, superimposition_metrics, struct, scn) ==
    IF superimposition_metrics /\ struct
    THEN IF scn = "raise"
         THEN [exc |-> "LibraryError", metrics |-> << >>]
         ELSE [exc |-> "none",
               metrics |-> BaseMetrics(n) @@ CaMetrics(n)
                              @@ AllAtomMetrics(n, scn)]
    ELSE [exc |-> "none", metrics |-> BaseMetrics(n)]

\* _compute_validation_metrics(batch, outputs, superimposition_metrics) for
\* a batch of `size` examples with n valid atoms; `scn` is what the
\* sidechainnet calls do
compute_validation_metrics(size, n, superimposition_metrics, struct, scn) ==
    IF superimposition_metrics /\ struct
    THEN IF size # 1
         THEN [exc |-> "AssertionError", metrics |-> << >>]
         ELSE IF scn = "raise"
              THEN [exc |-> "LibraryError", metrics |-> << >>]
              ELSE [exc |-> "none",
                    metrics |-> BaseMetrics(n) @@ CaMetrics(n)
                                   @@ AllAtomMetrics(n, scn)]
    ELSE [exc |-> "none", metrics |-> BaseMetrics(n)]

\* _log(loss_breakdown, batch, outputs, train): the loss terms are logged,
\* then the metrics are computed with superimposition_metrics=True and
\* logged; an exception from the computation leaves the step
log_step(size, n, train, scn) ==
    LET ph == IF train THEN "train" ELSE "val"
        res == compute_validation_metrics(size, n, TRUE, add_struct_metrics,
                                          scn)
        losses == {<<ph, "loss", "num">>}
                     \cup (IF train THEN {<<ph, "loss_epoch", "num">>} ELSE {})
    IN  /\ m_pc = "ready"
        /\ m_steps < MaxLogSteps
        /\ batch' = Some([size |-> size, valid |-> n, train |-> train])
        /\ m_steps' = m_steps + 1
        /\ m_exc' = res.exc
        /\ logged' = losses \cup
                        {<<ph, k, res.metrics[k]>> : k \in DOMAIN res.metrics}
        /\ m_pc' = IF res.exc = "none" THEN "ready" ELSE "failed"
        /\ UNCHANGED add_struct_metrics
        /\ UNCHANGED <<lvars, svars>>

\* the step loop of a run, seen from its metric logging
InitMetrics ==
    /\ LifecycleIdle
    /\ StartupIdle
    /\ m_pc = "ready"
    /\ add_struct_metrics \in BOOLEAN
    /\ batch = None
    /\ logged = {}
    /\ m_exc = "none"
    /\ m_steps = 0

NextMetrics ==
    \E size \in 1..MaxBatch, n \in 0..MaxAtoms, train \in BOOLEAN,
       scn \in ScnOutcomes : log_step(size, n, train, scn)

SpecMetrics == InitMetrics /\ [][NextMetrics]_vars

\* ------------------------------------------------------------ properties
\* C1: a swap-in followed by the swap-out of validation_epoch_end, with no
\* other write to the model in between, leaves every live parameter equal
\* to its value before the swap-in, and leaves the swap state Live.
C1_SwapRoundTrip ==
    (lastOp = "validation_epoch_end" /\ pre_state = "Swapped")
        => /\ err = "none"
           /\ cached_weights = None
           /\ pre_swap # None
           /\ ModelVals(heap) = pre_swap[1]

C1_Witness ==
    /\ lastOp = "validation_epoch_end"
    /\ pre_state = "Swapped"
    /\ pre_swap # None
    /\ ModelVals(heap) = pre_swap[1]
    /\ EmaVals(heap) # pre_swap[1]

C3_SwapOutWhileLiveRaises ==
    [][(lastOp' = "validation_epoch_end" /\ cached_weights = None)
          => /\ err' # "none"
             /\ pc' = "failed"
             /\ ModelVals(heap') = ModelVals(heap)
             /\ cached_weights' = None]_vars

C3_Witness ==
    /\ lastOp = "validation_epoch_end"
    /\ pre_state = "Live"
    /\ err = "TypeError"
    /\ pc = "failed"
    /\ ModelVals(heap) # EmaVals(heap)

\* C4: whenever a training_step or an EMA update has just run, no weights
\* were cached on its entry and none are cached after it.
C4_TrainOnlyWhenLive ==
    lastOp \in {"training_step", "on_before_zero_grad"}
        => (pre_state = "Live" /\ cached_weights = None)

C4_Witness ==
    /\ lastOp = "on_before_zero_grad"
    /\ swap_ins = 1
    /\ swap_outs = 1
    /\ val_done = 2
    /\ cached_weights = None

\* C5: a validation epoch with at least one batch swaps in exactly once,
\* before its first forward pass, and out exactly once, at its end; every
\* forward pass of the epoch sees live = EMA shadow, and the cache keeps the
\* values taken at the swap-in.
C5_OneSwapPerEpoch ==
    /\ (pc = "val" /\ val_done >= 1)
          => /\ swap_ins = 1
             /\ swap_outs = 0
             /\ fwd_on_ema
             /\ cached_weights # None
             /\ pre_swap # None
             /\ DictVals(heap, cached_weights[1]) = pre_swap[1]
    /\ lastOp = "validation_step" => (swap_ins = 1 /\ fwd_on_ema)
    /\ (lastOp = "validation_epoch_end" /\ val_done >= 1)
          => (swap_ins = 1 /\ swap_outs = 1 /\ fwd_on_ema)

C5_Witness ==
    /\ lastOp = "validation_epoch_end"
    /\ val_done = 2
    /\ swap_ins = 1
    /\ swap_outs = 1
    /\ pre_swap # None
    /\ EmaVals(heap) # pre_swap[1]

\* C7 as stated: after resume_last_lr_step(N), N >= 0, the first scheduler
\* step of the scheduler built by configure_optimizers computes the
\* multiplier of step N+1.
C7_ResumePosition ==
    (sched_steps = 1 /\ last_lr_step >= 0)
        => /\ sched[1].last_epoch = last_lr_step + 1
           /\ sched[1].lr = LRMultiplier(last_lr_step + 1)

\* C8: the strategy is DeepSpeed exactly when a DeepSpeed config is given;
\* otherwise DDP with find_unused_parameters=False exactly when more than
\* one device or more than one node is asked for; otherwise none.
C8_StrategyChoice ==
    strategy # "unset"
        => LET many == {n \in args.gpus : n >= 2} # {} \/ args.num_nodes >= 2
           IN  /\ strategy \in {"DeepSpeed", "DDP", "None"}
               /\ (strategy = "DeepSpeed") <=> args.deepspeed
               /\ (strategy = "DDP") <=> (~args.deepspeed /\ many)
               /\ (strategy = "DDP") => (find_unused = Some(FALSE))
               /\ (strategy # "DDP") => (find_unused = None)

C8_Witness ==
    /\ strategy = "DeepSpeed"
    /\ args.gpus = {2}
    /\ args.num_nodes = 2
    /\ phase = "train"

\* C9: with a DeepSpeed config and precision 16 together, startup ends in an
\* error before the model is built, before a checkpoint is read and before
\* any training step.
C9_Fp16DeepSpeedFatal ==
    (args.precision[2] = <<"1", "6">> /\ args.deepspeed)
        => /\ phase \in {"parsed", "failed"}
           /\ (phase = "failed" => exc # "none")
           /\ ~model_built
           /\ config = None
           /\ ckpt_reads = 0
           /\ sched_steps = 0

C9_Witness ==
    /\ phase = "failed"
    /\ exc = "ValueError: DeepSpeed and FP16"
    /\ args.precision = <<"int", <<"1", "6">>>>
    /\ args.deepspeed
    /\ args.resume = "file"

\* the checkpoint keys whose name contains "template", listed by hand
TemplateNamed == {Key_template_embedder_w, Key_extra_template_b}

\* C10: the EMA state handed to the tracker on load has the checkpoint's
\* shadow entries without the template-named ones when templates are
\* disabled, all of them when enabled, values and decay unchanged.
C10_LoadFiltersTemplateKeys ==
    ckpt_ema # None
        => LET got == ema_sd[1]
               ck == ckpt_ema[1]
               keep == IF config[1].template_enabled
                       THEN DOMAIN ck.params
                       ELSE DOMAIN ck.params \ TemplateNamed
           IN  /\ DOMAIN got.params = keep
               /\ \A k \in keep : got.params[k] = ck.params[k]
               /\ got.decay = ck.decay

C10_Witness ==
    /\ ckpt_ema # None
    /\ ~config[1].template_enabled
    /\ DOMAIN ckpt_ema[1].params = CkptKeys
    /\ DOMAIN ema_sd[1].params =
          {Key_evoformer_w, Key_templat_w, Key_Template_w}
    /\ saved_ema # None

\* C11: a weights-only resume, from a directory or from a single file, loads
\* into the wrapper exactly one entry "model." + k per key k of the flat
\* weight map, with k's value; the trainer gets no checkpoint path and
\* last_lr_step stays -1.
C11_WeightsOnlyResume ==
    (/\ args.resume # "none"
     /\ args.weights_only
     /\ phase \in {"resumed", "strategy", "fit", "configured", "train"})
        => /\ loaded_sd # None
           /\ ckpt_sd # None
           /\ Cardinality(DOMAIN loaded_sd[1]) = Cardinality(DOMAIN ckpt_sd[1])
           /\ \A k \in DOMAIN ckpt_sd[1] :
                 /\ (<<"m", "o", "d", "e", "l", ".">> \o k) \in DOMAIN loaded_sd[1]
                 /\ loaded_sd[1][<<"m", "o", "d", "e", "l", ".">> \o k]
                       = ckpt_sd[1][k]
           /\ last_lr_step = -1
           /\ ckpt_step = None
           /\ ckpt_ema = None
           /\ ckpt_path \in {"unset", "none"}
           /\ (phase \in {"fit", "configured", "train"} => ckpt_path = "none")

C11_Witness ==
    /\ phase = "train"
    /\ args.resume = "dir"
    /\ args.weights_only
    /\ sched_steps = 1
    /\ loaded_sd # None
    /\ ckpt_sd # None
    /\ DOMAIN ckpt_sd[1] = WeightKeys
    /\ ckpt_sd[1][Key_evoformer_w] # ckpt_sd[1][Key_templat_w]

C14_CacheIsValueCopy ==
    cached_weights # None
        => /\ pre_swap # None
           /\ \A k \in Keys :
                 /\ cached_weights[1][k] # model_state_dict[k]
                 /\ cached_weights[1][k] # ema_state_dict.params[k]
                 /\ heap[cached_weights[1][k]] = pre_swap[1][k]

C14_Witness ==
    /\ cached_weights # None
    /\ pre_swap # None
    /\ \A k \in Keys : heap[<<"model", k>>] # pre_swap[1][k]
    /\ \A k \in Keys : heap[cached_weights[1][k]] = pre_swap[1][k]
    /\ val_done = 2

\* C16: no step of a validation epoch changes the EMA tracker: its shadow
\* values change only in on_before_zero_grad (ema.update), its device only
\* in training_step (ema.to), and its decay not at all.
C16_ValidationKeepsEma ==
    [][/\ (lastOp' \in {"validation_start", "validation_step",
                        "validation_epoch_end"})
             => /\ EmaVals(heap') = EmaVals(heap)
                /\ ema_decay' = ema_decay
                /\ ema_device' = ema_device
       /\ EmaVals(heap') # EmaVals(heap) => lastOp' = "on_before_zero_grad"
       /\ ema_device' # ema_device => lastOp' = "training_step"
       /\ ema_decay' = ema_decay]_vars

C16_Witness ==
    /\ lastOp = "validation_epoch_end"
    /\ err = "none"
    /\ val_done = 2
    /\ swap_outs = 1
    /\ ema_updates >= 1
    /\ ema_device = "cuda"
    /\ EmaVals(heap) # ModelVals(heap)

\* C12: a step whose all-atom metrics are computed on a batch of more than
\* one example is rejected with an exception, and no all-atom metric of
\* that batch is logged.
C12_AllAtomBatchRejected ==
    (batch # None /\ add_struct_metrics /\ batch[1].size > 1)
        => /\ m_exc = "AssertionError"
           /\ m_pc = "failed"
           /\ \A e \in logged : e[2] \notin AllAtomMetricNames

C12_Witness ==
    /\ batch # None
    /\ add_struct_metrics
    /\ batch[1].size = 2
    /\ batch[1].valid = 3
    /\ m_exc = "AssertionError"
    /\ <<"val", "loss", "num">> \in logged
    /\ m_steps = 2

====
